---- MODULE Spec2Model ----
(***************************************************************************)
(* The DKSV TEAM contribution dashboard: the users table and the session   *)
(* of auth.py / app.py, and the contributions table of database.py.        *)
(*                                                                         *)
(* Text is a sequence of one-character strings, so that strip(),           *)
(* capitalize() and LOWER() are computed character by character.  A REAL   *)
(* amount is an exact fraction <<numerator, denominator>> in lowest terms  *)
(* (binary rounding of the float division is not modelled), or NaN.        *)
(***************************************************************************)
EXTENDS Integers, Sequences, FiniteSets, TLC

VARIABLES
    users,           \* users.db, table users: rows in rowid order
    created,         \* history: the role given to each account ever created
    authenticator,   \* st.session_state.authenticator: the loaded usernames
    username,        \* st.session_state["username"]: who is logged in
    contributions,   \* contributions.db, table contributions: a set of rows
    sqlite_sequence, \* AUTOINCREMENT: the largest id ever assigned
    clock,           \* the last value datetime.utcnow() returned
    download,        \* the last file export_contributions_to_excel produced
    last_add,        \* history: the id the last add assigned and the listing
                     \* before it, kept while that add is the last change or
                     \* has just been undone by delete_entry of that id
    calls,           \* the save_user_to_db calls in progress, one per caller:
                     \* what was passed, the count read, what was returned
    raised,          \* the exception the last operation let through to its
                     \* caller, or None
    ret              \* the last operation called and what it returned

vars == <<users, created, authenticator, username, contributions,
          sqlite_sequence, clock, download, last_add, calls, raised, ret>>

authVars == <<users, created, authenticator, username>>
storeVars == <<contributions, sqlite_sequence, clock, download, last_add>>

None == "None"

----------------------------------------------------------------------------
(* Bounds of the model. *)

\* accounts ever created in one behaviour
MaxCreated == 4
\* contribution ids ever assigned in one behaviour
MaxId == 3
\* data rows of an uploaded spreadsheet
MaxRows == 2

----------------------------------------------------------------------------
(* Text. *)

IsSpace(c) == c = " "

LowerChar(c) ==
    CASE c = "A" -> "a"
      [] c = "B" -> "b"
      [] c = "N" -> "n"
      [] OTHER -> c

UpperChar(c) ==
    CASE c = "a" -> "A"
      [] c = "b" -> "B"
      [] c = "n" -> "N"
      [] OTHER -> c

\* str.lower() / SQL LOWER()
Lower(s) == [i \in DOMAIN s |-> LowerChar(s[i])]

RECURSIVE LStrip(_)
LStrip(s) ==
    IF s # <<>> /\ IsSpace(Head(s)) THEN LStrip(Tail(s)) ELSE s

RECURSIVE RStrip(_)
RStrip(s) ==
    IF s # <<>> /\ IsSpace(s[Len(s)]) THEN RStrip(SubSeq(s, 1, Len(s) - 1)) ELSE s

\* str.strip()
Strip(s) == RStrip(LStrip(s))

\* str.capitalize(): first character upper-cased, the rest lower-cased
Capitalize(s) ==
    IF s = <<>> THEN s ELSE <<UpperChar(Head(s))>> \o Lower(Tail(s))

----------------------------------------------------------------------------
(* auth.py: the users table. *)

\* usernames the registration form and the callers submit
Usernames == { <<"a">>, <<"A">>, <<"b">> }

user_exists(u) == \E i \in DOMAIN users : users[i].username = u

get_user_count == Len(users)

\* SELECT role FROM users WHERE LOWER(username) = LOWER(?), fetchone():
\* the table is scanned in rowid order and the first match is returned.
MatchingRows(u) == { i \in DOMAIN users : Lower(users[i].username) = Lower(u) }

get_user_role(u) ==
    IF MatchingRows(u) = {} THEN None
    ELSE users[CHOOSE i \in MatchingRows(u) : \A j \in MatchingRows(u) : i <= j].role

\* role = "admin" if user_count == 0 else "viewer"
FirstUserRole(user_count) == IF user_count = 0 THEN "admin" ELSE "viewer"

\* load_users_from_db(): the keys of the dict handed to stauth.Authenticate
load_users_from_db == { users[i].username : i \in DOMAIN users }

\* what the registration form submits with a username: full name, bcrypt
\* hash, and the optional email (blank when left empty)
Profiles ==
    { [name |-> "n1", password |-> "h1", email |-> <<>>],
      [name |-> "n2", password |-> "h2", email |-> <<"e">>] }

\* email or f"{username}@example.com"
EmailOrDefault(u, email) ==
    IF email = <<>> THEN u \o <<"@example.com">> ELSE email

\* username TEXT PRIMARY KEY under COLLATE NOCASE
IntegrityError_nocase(u) ==
    \E i \in DOMAIN users : Lower(users[i].username) = Lower(u)

\* username TEXT PRIMARY KEY: the INSERT raises sqlite3.IntegrityError when a
\* row with the same username, compared byte by byte, is in the table
IntegrityError(u) ==
    \E i \in DOMAIN users : users[i].username = u

save_user_to_db(u, name, password, email) ==
    /\ Len(created) < MaxCreated
    /\ IF IntegrityError(u)
       THEN \* except sqlite3.IntegrityError: return False
            /\ ret' = [op |-> "save_user_to_db", arg |-> u, val |-> FALSE]
            /\ UNCHANGED <<users, created>>
       ELSE /\ users' = Append(users, [username |-> u,
                                       name |-> name,
                                       password |-> password,
                                       email |-> EmailOrDefault(u, email),
                                       role |-> FirstUserRole(get_user_count)])
            /\ created' = Append(created, FirstUserRole(get_user_count))
            /\ ret' = [op |-> "save_user_to_db", arg |-> u, val |-> TRUE]
    /\ UNCHANGED <<authenticator, username>>
    /\ raised' = None
    /\ UNCHANGED calls
    /\ UNCHANGED storeVars

\* DELETE FROM users WHERE username = ?; commit; return True
delete_user(u) ==
    /\ users' = SelectSeq(users, LAMBDA r : r.username # u)
    /\ ret' = [op |-> "delete_user", arg |-> u, val |-> TRUE]
    /\ UNCHANGED <<created, authenticator, username>>
    /\ raised' = None
    /\ UNCHANGED calls
    /\ UNCHANGED storeVars

\* DELETE FROM users; commit; return True
delete_all_users ==
    /\ users' = <<>>
    /\ ret' = [op |-> "delete_all_users", arg |-> None, val |-> TRUE]
    /\ UNCHANGED <<created, authenticator, username>>
    /\ raised' = None
    /\ UNCHANGED calls
    /\ UNCHANGED storeVars

----------------------------------------------------------------------------
(* auth.py: save_user_to_db called from two sessions at once.  Each call    *)
(* opens its own connection.  The SELECT COUNT runs outside any             *)
(* transaction; the INSERT opens one, which conn.commit() ends: the two     *)
(* statements of one call are separate steps, between which the other       *)
(* call's statements can run.                                               *)

Callers == { "s1", "s2" }

Idle == [pc |-> "idle", username |-> <<>>, name |-> "", password |-> "",
         email |-> <<>>, user_count |-> 0, val |-> FALSE]

\* the calls that have read the count and not yet run their INSERT
Counted == { c \in Callers : calls[c].pc = "counted" }

\* role as the INSERT would store it were the count read again at the INSERT
InsertedRole_recounted(user_count, rows_now) == FirstUserRole(rows_now)

\* the role bound to the INSERT: computed from user_count, the count this
\* call read, whatever number of rows the table holds by now
InsertedRole(user_count, rows_now) == FirstUserRole(user_count)

\* cursor.execute("SELECT COUNT FROM users"); user_count = fetchone()[0]
count_users(c, u, name, password, email) ==
    /\ calls[c].pc # "counted"
    /\ Len(created) + Cardinality(Counted) < MaxCreated
    /\ calls' = [calls EXCEPT ![c] =
                    [pc |-> "counted", username |-> u, name |-> name,
                     password |-> password, email |-> email,
                     user_count |-> get_user_count, val |-> FALSE]]
    /\ UNCHANGED <<raised, ret>>
    /\ UNCHANGED authVars
    /\ UNCHANGED storeVars

\* cursor.execute("INSERT INTO users ..."); conn.commit(); return True, or
\* except sqlite3.IntegrityError: return False
insert_user(c) ==
    LET call == calls[c]
        role == InsertedRole(call.user_count, get_user_count)
    IN  /\ call.pc = "counted"
        /\ IF IntegrityError(call.username)
           THEN /\ calls' = [calls EXCEPT ![c].pc = "returned", ![c].val = FALSE]
                /\ UNCHANGED <<users, created>>
           ELSE /\ users' = Append(users,
                                [username |-> call.username,
                                 name |-> call.name,
                                 password |-> call.password,
                                 email |-> EmailOrDefault(call.username, call.email),
                                 role |-> role])
                /\ created' = Append(created, role)
                /\ calls' = [calls EXCEPT ![c].pc = "returned", ![c].val = TRUE]
        /\ ret' = [op |-> "save_user_to_db", arg |-> call.username,
                   val |-> calls'[c].val]
        /\ raised' = None
        /\ UNCHANGED <<authenticator, username>>
        /\ UNCHANGED storeVars

----------------------------------------------------------------------------
(* app.py: one run of the script in Login mode. *)

\* if 'authenticator' not in st.session_state: ... = setup_authentication()
SessionAuthenticator ==
    IF authenticator = <<>> THEN load_users_from_db ELSE authenticator[1]

\* authenticator.login() given the username and the password of u: accepted
\* when u is among the credentials the session's authenticator was built
\* with, "Incorrect username or password" otherwise
Login(u) ==
    /\ username = None
    /\ authenticator' = <<SessionAuthenticator>>
    /\ IF u \in SessionAuthenticator
       THEN /\ username' = u
            /\ ret' = [op |-> "login", arg |-> u, val |-> TRUE]
       ELSE /\ username' = None
            /\ ret' = [op |-> "login", arg |-> u, val |-> FALSE]
    /\ UNCHANGED <<users, created>>
    /\ raised' = None
    /\ UNCHANGED calls
    /\ UNCHANGED storeVars

\* authenticator.logout()
Logout ==
    /\ username # None
    /\ username' = None
    /\ ret' = [op |-> "logout", arg |-> None, val |-> TRUE]
    /\ UNCHANGED <<users, created, authenticator>>
    /\ raised' = None
    /\ UNCHANGED calls
    /\ UNCHANGED storeVars

\* user_role = get_user_role(username); if user_role is None: "viewer"
user_role ==
    IF get_user_role(username) = None THEN "viewer" ELSE get_user_role(username)

\* if user_role == "admin": the add, delete, import and export controls
AdminControls == username # None /\ user_role = "admin"

----------------------------------------------------------------------------
(* config.py and database.py: amounts. *)

DIVISION_FACTOR == 120

Abs(n) == IF n < 0 THEN -n ELSE n

RECURSIVE GCD(_, _)
GCD(a, b) == IF b = 0 THEN a ELSE GCD(b, a % b)

\* the fraction n/d (d > 0) in lowest terms
Rat(n, d) == <<n \div GCD(Abs(n), d), d \div GCD(Abs(n), d)>>

\* float('nan'): the value pandas gives an empty cell
NaN == <<0, 0>>

\* the amount stored as typed, the division left out
normalize_amount_undivided(amount) == amount

\* float(amount) / DIVISION_FACTOR
normalize_amount(amount) ==
    IF amount = NaN THEN NaN ELSE Rat(amount[1], amount[2] * DIVISION_FACTOR)

\* amount <= 0 (False for NaN)
NotPositive(amount) == amount # NaN /\ amount[1] <= 0

----------------------------------------------------------------------------
(* database.py: the contributions table. *)

\* the table and its AUTOINCREMENT counter, as one value
Db == [rows |-> contributions, seq |-> sqlite_sequence]

\* INSERT INTO contributions (member, amount, month, date): the id is one
\* more than the largest id ever assigned
InsertRow(db, member, amount, month, date) ==
    [rows |-> db.rows \cup {[id |-> db.seq + 1, member |-> member,
                             amount |-> amount, month |-> month, date |-> date]},
     seq |-> db.seq + 1]

\* add_contribution(member, amount, month) at time now.  SQLite binds a NaN
\* as NULL, which amount REAL NOT NULL rejects: the insert raises and the
\* transaction of engine.begin() is rolled back.
add_contribution(db, member, amount, month, now) ==
    IF normalize_amount(amount) = NaN
    THEN [db |-> db, raised |-> TRUE]
    ELSE [db |-> InsertRow(db, Capitalize(Strip(member)), normalize_amount(amount),
                           Capitalize(Strip(month)), now),
          raised |-> FALSE]

\* ORDER BY date DESC; rows of equal date come in rowid order
RECURSIVE OrderByDateDesc(_)
OrderByDateDesc(rows) ==
    IF rows = {} THEN <<>>
    ELSE LET first == CHOOSE r \in rows : \A q \in rows :
                          \/ r.date > q.date
                          \/ r.date = q.date /\ r.id <= q.id
         IN  <<first>> \o OrderByDateDesc(rows \ {first})

\* SELECT * FROM contributions ORDER BY date DESC
get_all_contributions(rows) == OrderByDateDesc(rows)

\* DELETE FROM contributions, the WHERE clause left out
DeleteWhereId_every_row(rows, id) == {}

\* DELETE FROM contributions WHERE id = :id
DeleteWhereId(rows, id) == { r \in rows : r.id # id }

\* result.rowcount
rowcount(rows, id) == Cardinality({ r \in rows : r.id = id })

\* return True, as delete_user does
DeleteResult_always(n) == TRUE

\* return result.rowcount > 0
DeleteResult(n) == n > 0

\* delete_entry(entry_id), entry_id an integer (int(entry_id) is itself).
\* last_add survives only a delete of the id that the add just before gave.
delete_entry(entry_id) ==
    /\ contributions' = DeleteWhereId(contributions, entry_id)
    /\ ret' = [op |-> "delete_entry", arg |-> entry_id,
               val |-> DeleteResult(rowcount(contributions, entry_id))]
    /\ last_add' = IF /\ ret.op = "add_contribution_form"
                      /\ last_add # <<>>
                      /\ last_add[1].id = entry_id
                   THEN last_add ELSE <<>>
    /\ UNCHANGED <<sqlite_sequence, clock, download>>
    /\ raised' = None
    /\ UNCHANGED calls
    /\ UNCHANGED authVars

----------------------------------------------------------------------------
(* app.py: the admin's Add Single Contribution form. *)

\* what the admin types: text_input values and number_input(min_value=0.0)
MemberInputs == { <<>>, <<" ">>, <<" ", "a", "A">> }
MonthInputs == { <<>>, <<"n", " ">> }
AmountInputs == { <<0, 1>>, <<120, 1>> }

\* if not member_name or not month or amount <= 0
FormRejects(member_name, amount, month) ==
    member_name = <<>> \/ month = <<>> \/ NotPositive(amount)

add_contribution_form(member_name, amount, month) ==
    /\ IF FormRejects(member_name, amount, month)
       THEN /\ ret' = [op |-> "add_contribution_form",
                       arg |-> <<member_name, amount, month>>, val |-> FALSE]
            /\ last_add' = <<>>
            /\ UNCHANGED <<contributions, sqlite_sequence, clock>>
       ELSE /\ sqlite_sequence < MaxId
            /\ \E now \in {clock, clock + 1} :
                 LET r == add_contribution(Db, member_name, amount, month, now)
                 IN  /\ contributions' = r.db.rows
                     /\ sqlite_sequence' = r.db.seq
                     /\ clock' = now
                     /\ last_add' =
                            <<[id |-> r.db.seq,
                               listed |-> get_all_contributions(contributions)]>>
            /\ ret' = [op |-> "add_contribution_form",
                       arg |-> <<member_name, amount, month>>, val |-> TRUE]
    /\ UNCHANGED download
    /\ raised' = None
    /\ UNCHANGED calls
    /\ UNCHANGED authVars

----------------------------------------------------------------------------
(* database.py: spreadsheet import and export. *)

\* a spreadsheet cell
Text(s) == [t |-> "text", v |-> s]
Num(q) == [t |-> "num", v |-> q]
Blank == [t |-> "blank", v |-> <<>>]

\* required_cols = ['member', 'amount', 'month']
required_cols == <<"member", "amount", "month">>

\* pd.read_excel, per cell: an empty cell, and a text cell holding the empty
\* string, is read as the float NaN
ReadCell(c) ==
    IF c.t = "blank" \/ (c.t = "text" /\ c.v = <<>>) THEN Num(NaN) ELSE c

\* pd.read_excel(file): the DataFrame of a readable file
read_excel(file) ==
    [columns |-> file.columns,
     rows |-> [k \in DOMAIN file.rows |->
                  [c \in file.columns |-> ReadCell(file.rows[k][c])]]]

\* str(value): text is itself, float NaN is "nan" (no member or month cell of
\* the files enumerated here holds any other number)
Str(value) ==
    CASE value.t = "text" -> value.v
      [] value.t = "num" /\ value.v = NaN -> <<"n", "a", "n">>

\* float(value): a number is itself; text that is no numeral raises
\* ValueError (no amount cell of the files enumerated here holds a numeral
\* as text)
Float(value) ==
    IF value.t = "num" THEN [raised |-> FALSE, v |-> value.v]
    ELSE [raised |-> TRUE, v |-> NaN]

\* only the first required column that is missing
missing_cols_first(columns) ==
    SubSeq(SelectSeq(required_cols, LAMBDA col : col \notin columns), 1, 1)

\* [col for col in required_cols if col not in df.columns]
missing_cols(columns) == SelectSeq(required_cols, LAMBDA col : col \notin columns)

\* f"Row {idx + 2}: ..."
RowError(idx, text) == [row |-> idx + 2, text |-> text, cols |-> <<>>]

\* f"Missing required columns: {', '.join(missing_cols)}"
MissingError(cols) == [row |-> 0, text |-> "Missing required columns", cols |-> cols]

\* f"Error reading Excel file: {str(e)}"
ReadError == [row |-> 0, text |-> "Error reading Excel file", cols |-> <<>>]

\* if not member or not month or amount <= 0
RowInvalid(member, amount, month) ==
    member = <<>> \/ month = <<>> \/ NotPositive(amount)

\* the body of the loop over df.iterrows() for the row at index idx; acc is
\* [db, clock, success_count, errors].  Rows of one import are stamped at
\* strictly increasing times.
ImportRow(acc, idx, row) ==
    LET member == Strip(Str(row["member"]))
        amount == Float(row["amount"])
        month == Strip(Str(row["month"]))
        added == add_contribution(acc.db, member, amount.v, month, acc.clock + 1)
    IN  IF amount.raised
        THEN [acc EXCEPT !.errors = Append(@, RowError(idx, "ValueError"))]
        ELSE IF RowInvalid(member, amount.v, month)
        THEN [acc EXCEPT !.errors = Append(@, RowError(idx, "Invalid data"))]
        ELSE IF added.raised
        THEN [acc EXCEPT !.errors = Append(@, RowError(idx, "IntegrityError"))]
        ELSE [acc EXCEPT !.db = added.db, !.clock = @ + 1,
                         !.success_count = @ + 1]

\* for idx, row in df.iterrows(): the rows from position k on
RECURSIVE ImportRows(_, _, _)
ImportRows(acc, rows, k) ==
    IF k > Len(rows) THEN acc
    ELSE ImportRows(ImportRow(acc, k - 1, rows[k]), rows, k + 1)

\* import_contributions_from_excel(file) run on the table db at time now
ImportResult(db, now, file) ==
    LET df == read_excel(file)
        missing == missing_cols(df.columns)
    IN  IF ~ file.readable
        THEN [db |-> db, clock |-> now, success_count |-> 0,
              errors |-> <<ReadError>>]
        ELSE IF missing # <<>>
        THEN [db |-> db, clock |-> now, success_count |-> 0,
              errors |-> <<MissingError(missing)>>]
        ELSE ImportRows([db |-> db, clock |-> now, success_count |-> 0,
                         errors |-> <<>>],
                        df.rows, 1)

import_contributions_from_excel(file) ==
    LET done == ImportResult(Db, clock, file)
    IN  /\ done.db.seq <= MaxId
        /\ contributions' = done.db.rows
        /\ sqlite_sequence' = done.db.seq
        /\ clock' = done.clock
        /\ ret' = [op |-> "import_contributions_from_excel",
                   arg |-> [readable |-> file.readable, columns |-> file.columns],
                   val |-> <<done.success_count, done.errors>>]
        /\ last_add' = <<>>
        /\ UNCHANGED download
        /\ raised' = None
        /\ UNCHANGED calls
        /\ UNCHANGED authVars

\* df.to_excel(writer, index=False): every column of get_all_contributions(),
\* the rows in its order
to_excel(df) ==
    [readable |-> TRUE,
     columns |-> {"id", "member", "amount", "month", "date"},
     rows |-> [k \in DOMAIN df |->
                  [c \in {"id", "member", "amount", "month", "date"} |->
                      CASE c = "id" -> Num(<<df[k].id, 1>>)
                        [] c = "member" -> Text(df[k].member)
                        [] c = "amount" -> Num(df[k].amount)
                        [] c = "month" -> Text(df[k].month)
                        [] c = "date" -> Text(<<df[k].date>>)]]]

export_contributions_to_excel ==
    /\ download' = <<to_excel(get_all_contributions(contributions))>>
    /\ ret' = [op |-> "export_contributions_to_excel", arg |-> None, val |-> TRUE]
    /\ last_add' = <<>>
    /\ UNCHANGED <<contributions, sqlite_sequence, clock>>
    /\ raised' = None
    /\ UNCHANGED calls
    /\ UNCHANGED authVars

----------------------------------------------------------------------------
(* The spreadsheets an admin uploads. *)

\* data rows as typed into a sheet
SampleRows ==
    { [member |-> Text(<<" ", "a", "A">>), amount |-> Num(<<120, 1>>),
       month |-> Text(<<"n", " ">>)],
      [member |-> Text(<<"a", "A">>), amount |-> Num(<<-5, 1>>),
       month |-> Text(<<"n">>)],
      [member |-> Blank, amount |-> Num(<<250, 1>>), month |-> Text(<<"n">>)],
      [member |-> Text(<<"a", "A">>), amount |-> Blank, month |-> Text(<<"n">>)],
      [member |-> Text(<<"a", "A">>), amount |-> Text(<<"a">>),
       month |-> Text(<<"n">>)] }

Restrict(row, columns) == [c \in columns |-> row[c]]

Sheets == UNION { [1..n -> SampleRows] : n \in 0..MaxRows }

\* the header rows: complete, and with one, two or all three required
\* columns missing
ColumnSets ==
    { {"member", "amount", "month"}, {"member", "month"}, {"amount", "month"},
      {"amount"}, {} }

Uploads ==
    { [readable |-> TRUE, columns |-> cols,
       rows |-> [k \in DOMAIN sheet |-> Restrict(sheet[k], cols)]] :
         cols \in ColumnSets, sheet \in Sheets }
    \cup { [readable |-> FALSE, columns |-> {}, rows |-> <<>>] }

----------------------------------------------------------------------------
(* The operations called while the database file cannot be opened or is    *)
(* locked: the first statement an operation sends raises                    *)
(* sqlite3.OperationalError and nothing is written.  An operation whose    *)
(* body is inside try / except Exception returns what its handler returns; *)
(* any other lets the exception through to its caller.                      *)

OperationalError == "OperationalError"

\* the operation wrote nothing
NothingWritten ==
    /\ last_add' = <<>>
    /\ UNCHANGED <<contributions, sqlite_sequence, clock, download>>
    /\ UNCHANGED calls
    /\ UNCHANGED authVars

\* app.py form: the validation passes, add_contribution has no try
add_contribution_unavailable(member_name, amount, month) ==
    /\ ~ FormRejects(member_name, amount, month)
    /\ ret' = [op |-> "add_contribution_form",
               arg |-> <<member_name, amount, month>>, val |-> None]
    /\ raised' = OperationalError
    /\ NothingWritten

\* pd.read_sql(...) with no try
get_all_contributions_unavailable ==
    /\ ret' = [op |-> "get_all_contributions", arg |-> None, val |-> None]
    /\ raised' = OperationalError
    /\ NothingWritten

\* except Exception as e: print(...); return False
delete_entry_unavailable(entry_id) ==
    /\ ret' = [op |-> "delete_entry", arg |-> entry_id, val |-> FALSE]
    /\ raised' = None
    /\ NothingWritten

\* the body of the loop over df.iterrows() when add_contribution raises
ImportRowUnavailable(errors, idx, row) ==
    LET member == Strip(Str(row["member"]))
        amount == Float(row["amount"])
        month == Strip(Str(row["month"]))
    IN  IF amount.raised
        THEN Append(errors, RowError(idx, "ValueError"))
        ELSE IF RowInvalid(member, amount.v, month)
        THEN Append(errors, RowError(idx, "Invalid data"))
        ELSE Append(errors, RowError(idx, OperationalError))

RECURSIVE ImportRowsUnavailable(_, _, _)
ImportRowsUnavailable(errors, rows, k) ==
    IF k > Len(rows) THEN errors
    ELSE ImportRowsUnavailable(ImportRowUnavailable(errors, k - 1, rows[k]),
                               rows, k + 1)

\* the file is read and its columns checked as ever; every add_contribution
\* raises inside the per-row try
import_contributions_from_excel_unavailable(file) ==
    LET df == read_excel(file)
        missing == missing_cols(df.columns)
        errors == IF ~ file.readable THEN <<ReadError>>
                  ELSE IF missing # <<>> THEN <<MissingError(missing)>>
                  ELSE ImportRowsUnavailable(<<>>, df.rows, 1)
    IN  /\ ret' = [op |-> "import_contributions_from_excel",
                   arg |-> [readable |-> file.readable, columns |-> file.columns],
                   val |-> <<0, errors>>]
        /\ raised' = None
        /\ NothingWritten

\* except Exception as e: st.error(...); return False
save_user_to_db_unavailable(u) ==
    /\ ret' = [op |-> "save_user_to_db", arg |-> u, val |-> FALSE]
    /\ raised' = None
    /\ NothingWritten

\* except Exception as e: st.error(...); return False
delete_user_unavailable(u) ==
    /\ ret' = [op |-> "delete_user", arg |-> u, val |-> FALSE]
    /\ raised' = None
    /\ NothingWritten

\* sqlite3.connect / cursor.execute with no try
user_exists_unavailable(u) ==
    /\ ret' = [op |-> "user_exists", arg |-> u, val |-> None]
    /\ raised' = OperationalError
    /\ NothingWritten

\* sqlite3.connect / cursor.execute with no try
get_user_role_unavailable(u) ==
    /\ ret' = [op |-> "get_user_role", arg |-> u, val |-> None]
    /\ raised' = OperationalError
    /\ NothingWritten

----------------------------------------------------------------------------
(* The credential store and the session. *)

InitStore ==
    /\ contributions = {}
    /\ sqlite_sequence = 0
    /\ clock = 0
    /\ download = <<>>
    /\ last_add = <<>>

InitAuth ==
    /\ users = <<>>
    /\ created = <<>>
    /\ authenticator = <<>>
    /\ username = None

Init ==
    /\ InitAuth
    /\ InitStore
    /\ calls = [c \in Callers |-> Idle]
    /\ raised = None
    /\ ret = [op |-> "start", arg |-> None, val |-> None]

NextAuth ==
    \/ \E u \in Usernames, p \in Profiles :
          save_user_to_db(u, p.name, p.password, p.email)
    \/ \E u \in Usernames : delete_user(u)
    \/ delete_all_users
    \/ \E u \in Usernames : Login(u)
    \/ Logout

SpecAuth == Init /\ [][NextAuth]_vars

\* two sessions registering at once: the statements of their save_user_to_db
\* calls in any order
NextRace ==
    \/ \E c \in Callers, u \in Usernames, p \in Profiles :
          count_users(c, u, p.name, p.password, p.email)
    \/ \E c \in Callers : insert_user(c)

SpecRace == Init /\ [][NextRace]_vars

\* every store operation called with the database unavailable, between
\* adds and registrations that went through
NextFault ==
    \/ \E m \in MemberInputs, a \in AmountInputs, mo \in MonthInputs :
          \/ add_contribution_form(m, a, mo)
          \/ add_contribution_unavailable(m, a, mo)
    \/ get_all_contributions_unavailable
    \/ \E id \in 1..MaxId : delete_entry_unavailable(id)
    \/ \E file \in Uploads : import_contributions_from_excel_unavailable(file)
    \/ \E u \in Usernames :
          \/ save_user_to_db(u, "n1", "h1", <<>>)
          \/ save_user_to_db_unavailable(u)
          \/ delete_user_unavailable(u)
          \/ user_exists_unavailable(u)
          \/ get_user_role_unavailable(u)

SpecFault == Init /\ [][NextFault]_vars

\* the admin's add and delete controls of app.py
NextStore ==
    \/ \E m \in MemberInputs, a \in AmountInputs, mo \in MonthInputs :
          add_contribution_form(m, a, mo)
    \/ \E id \in 1..MaxId : delete_entry(id)

SpecStore == Init /\ [][NextStore]_vars

\* the admin's upload control of app.py
NextImport ==
    \E file \in Uploads : import_contributions_from_excel(file)

SpecImport == Init /\ [][NextImport]_vars

\* the admin's add, delete, download and upload controls of app.py, the
\* uploaded file being the one downloaded last
NextExport ==
    \/ \E m \in MemberInputs, a \in AmountInputs, mo \in MonthInputs :
          add_contribution_form(m, a, mo)
    \/ \E id \in 1..MaxId : delete_entry(id)
    \/ export_contributions_to_excel
    \/ \E k \in DOMAIN download : import_contributions_from_excel(download[k])

SpecExport == Init /\ [][NextExport]_vars

----------------------------------------------------------------------------
(* Claims about the credential store. *)

\* C1: only the first account ever created is stored with role admin; every
\* account created after it is stored with role viewer.
C1_OnlyFirstEverIsAdmin ==
    \A i \in DOMAIN created :
        created[i] = (IF i = 1 THEN "admin" ELSE "viewer")

\* C2: a logged-in account is offered the admin controls only when the role
\* stored on its own row (the row with exactly its username) is admin.
C2_GateFollowsOwnRow ==
    \A i \in DOMAIN users :
        (users[i].username = username /\ AdminControls)
            => users[i].role = "admin"

\* C9: delete_user returns true if and only if a row with exactly that
\* username existed and was removed; for a username not in the table it
\* returns false and leaves the table unchanged.
C9_DeleteUserTrueIffRemoved ==
    [][\A u \in Usernames :
          delete_user(u) =>
              /\ ret'.val = user_exists(u)
              /\ Len(users') = Len(users) - (IF user_exists(u) THEN 1 ELSE 0)
              /\ ~ \E i \in DOMAIN users' : users'[i].username = u]_vars

\* C11: save_user_to_db with a username that is already in the table, compared
\* case-sensitively, returns false and leaves the users table as it was (the
\* existing account keeps its name, password hash, email and role; the count
\* is unchanged); with any other username, one that differs from an existing
\* one only in letter case included, it returns true and appends one account.
C11_DuplicateUsernameRejected ==
    [][\A u \in Usernames, p \in Profiles :
          save_user_to_db(u, p.name, p.password, p.email) =>
              IF user_exists(u)
              THEN /\ ret'.val = FALSE
                   /\ users' = users
              ELSE /\ ret'.val = TRUE
                   /\ Len(users') = Len(users) + 1
                   /\ SubSeq(users', 1, Len(users)) = users
                   /\ users'[Len(users')].username = u]_vars

\* a save under the username of an existing account was refused, in a table
\* that also holds an account whose username differs only in letter case
C11_Witness ==
    /\ ret.op = "save_user_to_db"
    /\ ret.val = FALSE
    /\ user_exists(ret.arg)
    /\ \E i \in DOMAIN users :
         /\ users[i].username # ret.arg
         /\ Lower(users[i].username) = Lower(ret.arg)

\* C12: a save_user_to_db call stores the role it computed from the count it
\* read in its own earlier step, whatever the other call has inserted since:
\* two calls that both read the count 0 of the empty table are both stored
\* as admin.
C12_RoleFromCountReadEarlier ==
    \A c \in Callers :
        (calls[c].pc = "returned" /\ calls[c].val) =>
            \E i \in DOMAIN users :
                /\ users[i].username = calls[c].username
                /\ users[i].role = FirstUserRole(calls[c].user_count)

\* both calls have returned true after reading count 0, and the table holds
\* two accounts, both with role admin
C12_Witness ==
    /\ \A c \in Callers :
          calls[c].pc = "returned" /\ calls[c].val /\ calls[c].user_count = 0
    /\ Len(users) = 2
    /\ \A i \in DOMAIN users : users[i].role = "admin"

\* C14: a login is evaluated against the users table as it is at that
\* moment: it is accepted if and only if the account is in the table, so an
\* account registered after the session's authenticator was created can log
\* in and a deleted one cannot.
C14_LoginChecksCurrentUsers ==
    ret.op = "login" => (ret.val <=> ret.arg \in load_users_from_db)

----------------------------------------------------------------------------
(* Claims about the contribution store. *)

\* some character of s is not whitespace: s is non-empty after trimming
HasNonSpace(s) == \E i \in DOMAIN s : s[i] # " "

\* the claims' valid input: member and month non-empty after trimming and
\* amount a number greater than 0
ValidEntry(member, amount, month) ==
    HasNonSpace(member) /\ HasNonSpace(month) /\ amount[2] > 0 /\ amount[1] > 0

\* out is s trimmed and capitalized: s is out, up to letter case, between
\* runs of whitespace; out has no whitespace at either end, no lower-case
\* first letter and no upper-case letter after it
TrimmedCapitalized(s, out) ==
    /\ \E i \in 0..Len(s) :
         /\ i + Len(out) <= Len(s)
         /\ \A k \in 1..i : s[k] = " "
         /\ \A k \in (i + Len(out) + 1)..Len(s) : s[k] = " "
         /\ \A k \in 1..Len(out) : LowerChar(s[i + k]) = LowerChar(out[k])
    /\ out # <<>> => out[1] # " " /\ out[Len(out)] # " "
    /\ out # <<>> => out[1] \notin {"a", "b", "n"}
    /\ \A k \in 2..Len(out) : out[k] \notin {"A", "B", "N"}

\* seq without its i-th element
RemoveAt(seq, i) == SubSeq(seq, 1, i - 1) \o SubSeq(seq, i + 1, Len(seq))

\* C3: for every valid input, an add followed by the listing yields the
\* previous rows plus exactly one new row, whose amount is the input amount
\* divided by DIVISION_FACTOR and whose member and month are the inputs
\* trimmed and capitalized.
C3_AddThenListOneNewRow ==
    [][\A m \in MemberInputs, a \in AmountInputs, mo \in MonthInputs :
          (ValidEntry(m, a, mo) /\ add_contribution_form(m, a, mo)) =>
              \E i \in DOMAIN get_all_contributions(contributions') :
                  LET new == get_all_contributions(contributions')[i]
                  IN  /\ RemoveAt(get_all_contributions(contributions'), i)
                            = get_all_contributions(contributions)
                      /\ new.amount[2] > 0
                      /\ new.amount[1] * a[2] * DIVISION_FACTOR
                            = a[1] * new.amount[2]
                      /\ TrimmedCapitalized(m, new.member)
                      /\ TrimmedCapitalized(mo, new.month)]_vars

\* a valid add has been made to a table that already held a row
C3_Witness ==
    /\ ret.op = "add_contribution_form"
    /\ ret.val = TRUE
    /\ ret.arg = << <<" ", "a", "A">>, <<120, 1>>, <<"n", " ">> >>
    /\ Cardinality(contributions) >= 2
    /\ \E r \in contributions :
         /\ r.id = sqlite_sequence
         /\ r.member = <<"A", "a">>
         /\ r.amount = <<1, 1>>
         /\ r.month = <<"N">>

\* C4: every stored entry has amount > 0 and a member and a month that are
\* non-empty after trimming (an add of anything else inserts nothing).
C4_StoredEntriesValid ==
    \A r \in contributions : ValidEntry(r.member, r.amount, r.month)

\* C8: an add followed immediately by delete_entry of the id given to the new
\* row leaves the listing equal to the listing before the add.
C8_AddThenDeleteRestoresList ==
    (ret.op = "delete_entry" /\ last_add # <<>>)
        => get_all_contributions(contributions) = last_add[1].listed

\* an add to a table of two rows has just been undone by delete_entry
C8_Witness ==
    /\ ret.op = "delete_entry"
    /\ ret.val = TRUE
    /\ last_add # <<>>
    /\ ret.arg = last_add[1].id
    /\ Len(last_add[1].listed) = 2

\* C10: delete_entry returns true if and only if a row with the given id
\* existed; then exactly that row is removed and every other row is
\* unchanged; when it returns false the table is unchanged.
C10_DeleteEntryTrueIffExisted ==
    [][\A id \in 1..MaxId :
          delete_entry(id) =>
              LET hit == { r \in contributions : r.id = id }
              IN  /\ ret'.val = (hit # {})
                  /\ Cardinality(hit) <= 1
                  /\ contributions' = contributions \ hit]_vars

\* delete_entry returned true and left other rows in the table
C10_Witness ==
    /\ ret.op = "delete_entry"
    /\ ret.val = TRUE
    /\ contributions # {}
    /\ \A r \in contributions : r.id # ret.arg
----------------------------------------------------------------------------
(* Claims about storage failures. *)

\* C13: no store operation (add, list, delete of an entry, import, account
\* creation and deletion, username-exists check, role lookup) lets a storage
\* exception through to its caller; each ends with a false or error-list
\* result.
C13_NoRawStorageException ==
    raised = None

----------------------------------------------------------------------------
(* Claims about spreadsheet import and export. *)

\* a data row the claims call valid: member and month cells hold text that
\* is non-empty after trimming, the amount cell holds a number above 0
ValidRow(row) ==
    /\ row["member"].t = "text" /\ HasNonSpace(row["member"].v)
    /\ row["month"].t = "text" /\ HasNonSpace(row["month"].v)
    /\ row["amount"].t = "num" /\ row["amount"].v[2] > 0
    /\ row["amount"].v[1] > 0

\* the positions (1-based) of the invalid data rows, in order
RECURSIVE InvalidRows(_, _)
InvalidRows(rows, k) ==
    IF k > Len(rows) THEN <<>>
    ELSE (IF ValidRow(rows[k]) THEN <<>> ELSE <<k>>) \o InvalidRows(rows, k + 1)

HasAllColumns(file) ==
    file.readable /\ {"member", "amount", "month"} \subseteq file.columns

\* C6: for a file with all required columns, successCount is the number of
\* valid rows, the error list has exactly one message per invalid row, the
\* message of data row k naming Row k+1, and exactly the valid rows are
\* inserted, before and after an invalid row alike.
C6_RowsHandledIndependently ==
    [][\A file \in Uploads :
          (HasAllColumns(file) /\ import_contributions_from_excel(file)) =>
              LET invalid == InvalidRows(file.rows, 1)
                  errors == ret'.val[2]
              IN  /\ ret'.val[1] = Len(file.rows) - Len(invalid)
                  /\ Len(errors) = Len(invalid)
                  /\ \A j \in DOMAIN errors : errors[j].row = invalid[j] + 1
                  /\ contributions \subseteq contributions'
                  /\ Cardinality(contributions' \ contributions)
                        = Len(file.rows) - Len(invalid)]_vars

\* C7: an import of a file that lacks a required column returns
\* successCount 0 and exactly one error, which names every missing column,
\* and leaves the contributions table unchanged.  (A step that ends with
\* ret.op = "import_contributions_from_excel" is a call of it on a file whose
\* header row is ret.arg.columns.)
C7_MissingColumnsShortCircuit ==
    [][(/\ ret'.op = "import_contributions_from_excel"
        /\ ret'.arg.readable
        /\ ~ ({"member", "amount", "month"} \subseteq ret'.arg.columns)) =>
           /\ ret'.val[1] = 0
           /\ Len(ret'.val[2]) = 1
           /\ ret'.val[2][1].text = "Missing required columns"
           /\ { ret'.val[2][1].cols[j] : j \in DOMAIN ret'.val[2][1].cols }
                 = {"member", "amount", "month"} \ ret'.arg.columns
           /\ contributions' = contributions
           /\ sqlite_sequence' = sqlite_sequence]_vars

\* a file without the member and month columns was imported into a table
\* that holds a row, and was refused with one error
C7_Witness ==
    /\ ret.op = "import_contributions_from_excel"
    /\ ret.arg.columns = {"amount"}
    /\ ret.val = <<0, <<MissingError(<<"member", "month">>)>>>>
    /\ contributions # {}

\* the multiset of the elements of a sequence
BagOf(seq) ==
    [t \in { seq[k] : k \in DOMAIN seq } |->
        Cardinality({ k \in DOMAIN seq : seq[k] = t })]

\* the (member, amount, month) triples of the table and of an exported file
TableTriples(rows) ==
    [k \in DOMAIN get_all_contributions(rows) |->
        << get_all_contributions(rows)[k].member,
           get_all_contributions(rows)[k].amount,
           get_all_contributions(rows)[k].month >>]

FileTriples(file) ==
    [k \in DOMAIN file.rows |->
        << file.rows[k]["member"].v, file.rows[k]["amount"].v,
           file.rows[k]["month"].v >>]

\* C5: an export followed by an import of the exported file into an empty
\* store reproduces the multiset of (member, amount, month) triples that
\* were exported.
C5_ExportImportRoundTrip ==
    [][\A k \in DOMAIN download :
          (contributions = {} /\ import_contributions_from_excel(download[k]))
              => BagOf(TableTriples(contributions'))
                    = BagOf(FileTriples(download[k]))]_vars

====
